---- MODULE Spec2Model ----
(***************************************************************************)
(* tinyhtml: the Element model and its string rendering.                   *)
(*                                                                         *)
(* Python strings are modelled as sequences of one-character strings, so   *)
(* that concatenation, rstrip and str() are computed character by          *)
(* character.  Python values are tagged records [k |-> kind, v |-> value]. *)
(* Dictionaries (keyword arguments, style mappings) are sequences of       *)
(* <<key, value>> pairs in insertion order.                                *)
(*                                                                         *)
(* isinstance(items, Primitive) is read as a test against the value of the *)
(* alias, str | bytes | int | float | Element, as the repository's test    *)
(* requires.                                                               *)
(***************************************************************************)
EXTENDS Integers, Sequences, FiniteSets, TLC

VARIABLES elems, iters, last

vars == <<elems, iters, last>>

----------------------------------------------------------------------------
(* Bounds of the model *)

MaxElems == 2

MaxIters == 1

MaxAttrs == 2

RecursionLimit == 12

----------------------------------------------------------------------------
(* Python values *)

PStr(s) == [k |-> "str", v |-> s]

PBytes(s) == [k |-> "bytes", v |-> s]

PInt(n) == [k |-> "int", v |-> n]

PFloat(t) == [k |-> "float", v |-> t]

PBool(b) == [k |-> "bool", v |-> b]

PNone == [k |-> "none", v |-> 0]

PObject == [k |-> "object", v |-> 0]

PDict(items) == [k |-> "dict", v |-> items]

PList(items) == [k |-> "list", v |-> items]

PTuple(items) == [k |-> "tuple", v |-> items]

PElem(i) == [k |-> "elem", v |-> i]

PIter(j) == [k |-> "iter", v |-> j]

Digits == <<"0", "1", "2", "3", "4", "5", "6", "7", "8", "9">>

RECURSIVE NatStr(_)
NatStr(n) == IF n < 10 THEN <<Digits[n + 1]>>
             ELSE NatStr(n \div 10) \o <<Digits[(n % 10) + 1]>>

IntStr(n) == IF n < 0 THEN <<"-">> \o NatStr(0 - n) ELSE NatStr(n)

FloatStr(t) == IntStr(t \div 10) \o <<".">> \o <<Digits[(t % 10) + 1]>>

StrRepr(s) == <<"'">> \o s \o <<"'">>

RECURSIVE DictItemsRepr(_)
DictItemsRepr(items) ==
    IF items = <<>> THEN <<>>
    ELSE StrRepr(items[1][1]) \o <<":", " ">> \o StrRepr(items[1][2])
         \o (IF Len(items) > 1 THEN <<",", " ">> ELSE <<>>)
         \o DictItemsRepr(Tail(items))

TypeName(x) == CASE x.k = "none" -> "NoneType"
                 [] x.k = "object" -> "object"
                 [] OTHER -> x.k

PyStr(x) == CASE x.k = "str" -> x.v
              [] x.k = "bytes" -> <<"b">> \o StrRepr(x.v)
              [] x.k = "int" -> IntStr(x.v)
              [] x.k = "float" -> FloatStr(x.v)
              [] x.k = "bool" -> IF x.v THEN <<"T", "r", "u", "e">>
                                 ELSE <<"F", "a", "l", "s", "e">>
              [] x.k = "none" -> <<"N", "o", "n", "e">>
              [] x.k = "dict" -> <<"{">> \o DictItemsRepr(x.v) \o <<"}">>

PyEq(x, y) ==
    \/ x.k = y.k /\ x = y
    \/ /\ x.k \in {"bool", "int", "float"}
       /\ y.k \in {"bool", "int", "float"}
       /\ (IF x.k = "bool" THEN (IF x.v THEN 10 ELSE 0)
           ELSE IF x.k = "int" THEN 10 * x.v ELSE x.v)
          = (IF y.k = "bool" THEN (IF y.v THEN 10 ELSE 0)
             ELSE IF y.k = "int" THEN 10 * y.v ELSE y.v)

PyIn(x, tup) == \E i \in 1..Len(tup) : PyEq(x, tup[i])

IsPrimitive(x) == x.k \in {"str", "bytes", "int", "float", "bool", "elem"}

IsIterable(x) == x.k \in {"list", "tuple", "iter"}

RECURSIVE RStrip(_, _)
RStrip(s, c) == IF s # <<>> /\ s[Len(s)] = c
                THEN RStrip(SubSeq(s, 1, Len(s) - 1), c)
                ELSE s

----------------------------------------------------------------------------
(* Names used by the library and by the callers of the model *)

s_type == <<"t", "y", "p", "e">>

s_charset == <<"c", "h", "a", "r", "s", "e", "t">>

s_style == <<"s", "t", "y", "l", "e">>

s_script == <<"s", "c", "r", "i", "p", "t">>

s_input == <<"i", "n", "p", "u", "t">>

s_meta == <<"m", "e", "t", "a">>

s_div == <<"d", "i", "v">>

DEFAULT_ATTRS == <<
    <<s_script, << <<s_type, PStr(<<"t", "e", "x", "t", "/", "j", "a", "v", "a", "s", "c", "r", "i", "p", "t">>)>> >> >>,
    <<s_style, << <<s_type, PStr(<<"t", "e", "x", "t", "/", "c", "s", "s">>)>> >> >>,
    <<s_input, << <<s_type, PStr(<<"t", "e", "x", "t">>)>> >> >>,
    <<s_meta, << <<s_charset, PStr(<<"u", "t", "f", "-", "8">>)>> >> >> >>

HasKey(d, key) == \E i \in 1..Len(d) : d[i][1] = key

Lookup(d, key) == d[CHOOSE i \in 1..Len(d) : d[i][1] = key][2]

----------------------------------------------------------------------------
(* Rendering *)

RECURSIVE StyleStr(_)
StyleStr(items) ==
    IF items = <<>> THEN <<>>
    ELSE items[1][1] \o <<":">> \o items[1][2]
         \o (IF Len(items) > 1 THEN <<";">> ELSE <<>>)
         \o StyleStr(Tail(items))

render_attr(key, value) ==
    LET name == RStrip(key, "_") IN
    IF value.k = "bool" /\ value.v THEN <<" ">> \o name
    ELSE IF (value.k = "bool" /\ ~value.v) \/ value.k = "none" THEN <<>>
    ELSE IF name = s_style /\ value.k = "dict" THEN
        <<" ">> \o s_style \o <<"=", "\"">> \o StyleStr(value.v) \o <<"\"">>
    ELSE <<" ">> \o name \o <<"=", "\"">> \o PyStr(value) \o <<"\"">>

AttrKept(value) == ~PyIn(value, <<PBool(FALSE), PNone>>)

RECURSIVE AttrsStr(_)
AttrsStr(attrs) ==
    IF attrs = <<>> THEN <<>>
    ELSE (IF AttrKept(attrs[1][2]) THEN render_attr(attrs[1][1], attrs[1][2])
          ELSE <<>>)
         \o AttrsStr(Tail(attrs))

Ok(s, its, d) == [st |-> "ok", s |-> s, ty |-> "", its |-> its, depth |-> d]

TypeError(x, its, d) ==
    [st |-> "TypeError", s |-> <<>>, ty |-> TypeName(x), its |-> its, depth |-> d]

RecursionError(its, d) ==
    [st |-> "RecursionError", s |-> <<>>, ty |-> "", its |-> its, depth |-> d]

Max(a, b) == IF a > b THEN a ELSE b

OpenTag(e) == <<"<">> \o e.tag \o AttrsStr(e.attrs) \o <<">">>

CloseTag(e) == <<"<", "/">> \o e.tag \o <<">">>

(* variant: a void element rendered without its attributes *)
VoidStr_NoAttrs(e) == <<"<">> \o e.tag \o <<"/", ">">>

VoidStr(e) == <<"<">> \o e.tag \o AttrsStr(e.attrs) \o <<"/", ">">>

EmptyStr(e) == OpenTag(e) \o CloseTag(e)

WrapStr(e, content_str) ==
    IF e.preserve_whitespace
    THEN OpenTag(e) \o <<"\n">> \o content_str \o <<"\n">> \o CloseTag(e)
    ELSE OpenTag(e) \o content_str \o CloseTag(e)

RECURSIVE render_content(_, _, _, _)
RECURSIVE ElemStr(_, _, _, _)
RECURSIVE JoinItems(_, _, _, _)
RECURSIVE JoinIter(_, _, _, _)

(* variant: the items joined with a space between them *)
RECURSIVE JoinItems_Spaced(_, _, _, _)
JoinItems_Spaced(items, H, its, d) ==
    IF items = <<>> THEN Ok(<<>>, its, d)
    ELSE LET r == render_content(Head(items), H, its, d + 1) IN
         IF r.st # "ok" THEN r
         ELSE LET rest == JoinItems_Spaced(Tail(items), H, r.its, d) IN
              IF rest.st # "ok" THEN rest
              ELSE Ok(r.s \o (IF Len(items) > 1 THEN <<" ">> ELSE <<>>) \o rest.s,
                      rest.its, Max(r.depth, rest.depth))

(* "".join(render_content(x) for x in items) over a tuple or a list *)
JoinItems(items, H, its, d) ==
    IF items = <<>> THEN Ok(<<>>, its, d)
    ELSE LET r == render_content(Head(items), H, its, d + 1) IN
         IF r.st # "ok" THEN r
         ELSE LET rest == JoinItems(Tail(items), H, r.its, d) IN
              IF rest.st # "ok" THEN rest
              ELSE Ok(r.s \o rest.s, rest.its, Max(r.depth, rest.depth))

(* the same join over a one-shot iterator: every item taken is gone *)
JoinIter(j, H, its, d) ==
    IF its[j] = <<>> THEN Ok(<<>>, its, d)
    ELSE LET r == render_content(Head(its[j]), H,
                                 [its EXCEPT ![j] = Tail(@)], d + 1) IN
         IF r.st # "ok" THEN r
         ELSE LET rest == JoinIter(j, H, r.its, d) IN
              IF rest.st # "ok" THEN rest
              ELSE Ok(r.s \o rest.s, rest.its, Max(r.depth, rest.depth))

render_content(items, H, its, d) ==
    IF d > RecursionLimit THEN RecursionError(its, d)
    ELSE IF IsPrimitive(items) THEN
        IF items.k = "elem" THEN ElemStr(items.v, H, its, d + 1)
        ELSE Ok(PyStr(items), its, d)
    ELSE IF IsIterable(items) THEN
        IF items.k = "iter" THEN JoinIter(items.v, H, its, d)
        ELSE JoinItems(items.v, H, its, d)
    ELSE TypeError(items, its, d)

(* Element.__str__ of element i of heap H, called at stack depth d *)
ElemStr(i, H, its, d) ==
    IF d > RecursionLimit THEN RecursionError(its, d)
    ELSE LET e == H[i] IN
         IF e.is_void THEN Ok(VoidStr(e), its, d)
         ELSE IF e.content = <<>> THEN Ok(EmptyStr(e), its, d)
         ELSE LET r == render_content(PTuple(e.content), H, its, d + 1) IN
              IF r.st # "ok" THEN r
              ELSE Ok(WrapStr(e, r.s), r.its, r.depth)

----------------------------------------------------------------------------
(* Construction and content replacement *)

(* variant: the default replaces a value the caller supplied *)
setdefault_Overwrite(d, key, value) ==
    IF HasKey(d, key)
    THEN [n \in 1..Len(d) |-> IF d[n][1] = key THEN <<key, value>> ELSE d[n]]
    ELSE Append(d, <<key, value>>)

setdefault(d, key, value) == IF HasKey(d, key) THEN d ELSE Append(d, <<key, value>>)

RECURSIVE MergeDefaults(_, _)
MergeDefaults(attrs, defaults) ==
    IF defaults = <<>> THEN attrs
    ELSE MergeDefaults(setdefault(attrs, defaults[1][1], defaults[1][2]),
                       Tail(defaults))

(* variant: no default attribute is merged *)
InitAttrs_NoDefaults(tag, attrs) == attrs

InitAttrs(tag, attrs) ==
    IF HasKey(DEFAULT_ATTRS, tag)
    THEN MergeDefaults(attrs, Lookup(DEFAULT_ATTRS, tag))
    ELSE attrs

Result(op, target, st, out, ty, depth, void, nargs) ==
    [op |-> op, target |-> target, st |-> st, out |-> out, ty |-> ty,
     depth |-> depth, void |-> void, nargs |-> nargs]

(* Element.__init__; kwargs keeps the keyword arguments as the caller passed
   them (a history field, read by no operation) *)
Construct(tag, content, void, pw, attrs) ==
    IF void /\ content # <<>> THEN
        /\ last' = Result("construct", 0, "ValueError", <<>>, "", 0, void, Len(content))
        /\ UNCHANGED <<elems, iters>>
    ELSE
        /\ elems' = Append(elems, [tag |-> tag, is_void |-> void,
                                   preserve_whitespace |-> pw,
                                   attrs |-> InitAttrs(tag, attrs),
                                   content |-> content, kwargs |-> attrs])
        /\ last' = Result("construct", Len(elems) + 1, "ok", <<>>, "", 0, void, Len(content))
        /\ UNCHANGED iters

(* variant: content replacement without the void check *)
Call_NoVoidCheck(i, content) ==
    /\ elems' = [elems EXCEPT ![i].content = content]
    /\ last' = Result("call", i, "ok", <<>>, "", 0, elems[i].is_void, Len(content))
    /\ UNCHANGED iters

(* Element.__call__ *)
Call(i, content) ==
    IF elems[i].is_void /\ content # <<>> THEN
        /\ last' = Result("call", i, "ValueError", <<>>, "", 0, elems[i].is_void, Len(content))
        /\ UNCHANGED <<elems, iters>>
    ELSE
        /\ elems' = [elems EXCEPT ![i].content = content]
        /\ last' = Result("call", i, "ok", <<>>, "", 0, elems[i].is_void, Len(content))
        /\ UNCHANGED iters

(* str(element) *)
Render(i) ==
    LET r == ElemStr(i, elems, iters, 1) IN
    /\ last' = Result("render", i, r.st, r.s, r.ty, r.depth, elems[i].is_void, 0)
    /\ iters' = r.its
    /\ UNCHANGED elems

(* element(tag, void=..., preserve_whitespace=...) and its wrapper *)
element(tag, void, pw) == [tag |-> tag, void |-> void, pw |-> pw]

Factory(f, content, attrs) == Construct(f.tag, content, f.void, f.pw, attrs)

(* the pre-defined elements, Html .. Canvas *)
Catalog == {
    element(<<"h", "t", "m", "l">>, FALSE, FALSE),
    element(<<"h", "e", "a", "d">>, FALSE, FALSE),
    element(<<"b", "o", "d", "y">>, FALSE, FALSE),
    element(<<"t", "i", "t", "l", "e">>, FALSE, FALSE),
    element(<<"m", "e", "t", "a">>, TRUE, FALSE),
    element(<<"l", "i", "n", "k">>, TRUE, FALSE),
    element(<<"s", "t", "y", "l", "e">>, FALSE, TRUE),
    element(<<"s", "c", "r", "i", "p", "t">>, FALSE, TRUE),
    element(<<"h", "e", "a", "d", "e", "r">>, FALSE, FALSE),
    element(<<"n", "a", "v">>, FALSE, FALSE),
    element(<<"m", "a", "i", "n">>, FALSE, FALSE),
    element(<<"a", "r", "t", "i", "c", "l", "e">>, FALSE, FALSE),
    element(<<"s", "e", "c", "t", "i", "o", "n">>, FALSE, FALSE),
    element(<<"a", "s", "i", "d", "e">>, FALSE, FALSE),
    element(<<"f", "o", "o", "t", "e", "r">>, FALSE, FALSE),
    element(<<"d", "i", "v">>, FALSE, FALSE),
    element(<<"p">>, FALSE, FALSE),
    element(<<"h", "r">>, TRUE, FALSE),
    element(<<"p", "r", "e">>, FALSE, TRUE),
    element(<<"c", "o", "d", "e">>, FALSE, TRUE),
    element(<<"b", "l", "o", "c", "k", "q", "u", "o", "t", "e">>, FALSE, FALSE),
    element(<<"s", "p", "a", "n">>, FALSE, FALSE),
    element(<<"a">>, FALSE, FALSE),
    element(<<"s", "t", "r", "o", "n", "g">>, FALSE, FALSE),
    element(<<"e", "m">>, FALSE, FALSE),
    element(<<"i">>, FALSE, FALSE),
    element(<<"b">>, FALSE, FALSE),
    element(<<"u">>, FALSE, FALSE),
    element(<<"s", "u", "b">>, FALSE, FALSE),
    element(<<"s", "u", "p">>, FALSE, FALSE),
    element(<<"b", "r">>, TRUE, FALSE),
    element(<<"u", "l">>, FALSE, FALSE),
    element(<<"o", "l">>, FALSE, FALSE),
    element(<<"l", "i">>, FALSE, FALSE),
    element(<<"d", "l">>, FALSE, FALSE),
    element(<<"d", "t">>, FALSE, FALSE),
    element(<<"d", "d">>, FALSE, FALSE),
    element(<<"t", "a", "b", "l", "e">>, FALSE, FALSE),
    element(<<"c", "a", "p", "t", "i", "o", "n">>, FALSE, FALSE),
    element(<<"t", "h", "e", "a", "d">>, FALSE, FALSE),
    element(<<"t", "b", "o", "d", "y">>, FALSE, FALSE),
    element(<<"t", "f", "o", "o", "t">>, FALSE, FALSE),
    element(<<"t", "r">>, FALSE, FALSE),
    element(<<"t", "h">>, FALSE, FALSE),
    element(<<"t", "d">>, FALSE, FALSE),
    element(<<"f", "o", "r", "m">>, FALSE, FALSE),
    element(<<"l", "a", "b", "e", "l">>, FALSE, FALSE),
    element(<<"i", "n", "p", "u", "t">>, TRUE, FALSE),
    element(<<"b", "u", "t", "t", "o", "n">>, FALSE, FALSE),
    element(<<"s", "e", "l", "e", "c", "t">>, FALSE, FALSE),
    element(<<"o", "p", "t", "i", "o", "n">>, FALSE, FALSE),
    element(<<"t", "e", "x", "t", "a", "r", "e", "a">>, FALSE, TRUE),
    element(<<"i", "m", "g">>, TRUE, FALSE),
    element(<<"a", "u", "d", "i", "o">>, FALSE, FALSE),
    element(<<"v", "i", "d", "e", "o">>, FALSE, FALSE),
    element(<<"s", "o", "u", "r", "c", "e">>, TRUE, FALSE),
    element(<<"c", "a", "n", "v", "a", "s">>, FALSE, FALSE) }

----------------------------------------------------------------------------
(* The callers: values they pass *)

s_a == <<"a">>

s_id == <<"i", "d">>

s_class_ == <<"c", "l", "a", "s", "s", "_">>

s_class__ == <<"c", "l", "a", "s", "s", "_", "_">>

s_style_ == <<"s", "t", "y", "l", "e", "_">>

NestedList == PList(<<PStr(<<"a">>), PList(<<PStr(<<"b">>), PStr(<<"c">>)>>)>>)

BadList == PList(<<PInt(12), PList(<<PBytes(<<"b">>), PNone>>)>>)

StyleDict == PDict(<< <<<<"c", "o", "l", "o", "r">>, <<"r", "e", "d">>>>,
                      <<<<"m", "a", "r", "g", "i", "n">>, <<"0">>>> >>)

ElemRefs == {PElem(i) : i \in 1..Len(elems)}

IterRefs == {PIter(j) : j \in 1..Len(iters)}

IterSources == {<<PStr(<<"a">>), PStr(<<"b">>)>>}

NewContents == {<<>>, <<PStr(s_a)>>, <<NestedList>>, <<BadList>>}
               \cup {<<r>> : r \in ElemRefs \cup IterRefs}

CallContents(i) == {<<PStr(s_a)>>, <<PElem(i), PObject>>}
                   \cup {<<r>> : r \in ElemRefs}

CatalogEntry(tag) == CHOOSE f \in Catalog : f.tag = tag

TreeFactoryArgs ==
    { <<CatalogEntry(<<"p">>), <<PStr(s_a)>>, << <<s_id, PStr(<<"x">>)>> >> >>,
      <<CatalogEntry(<<"p", "r", "e">>), <<PStr(s_a)>>, <<>> >>,
      <<CatalogEntry(<<"b", "r">>), <<PStr(s_a)>>, <<>> >> }

----------------------------------------------------------------------------
(* Spec: callers building and rendering trees of elements *)

Init ==
    /\ elems = <<>>
    /\ iters = <<>>
    /\ last = Result("init", 0, "ok", <<>>, "", 0, FALSE, 0)

NewElement ==
    /\ Len(elems) < MaxElems
    /\ \E c \in NewContents, void \in BOOLEAN :
          Construct(s_div, c, void, FALSE, <<>>)

NewFromCatalog ==
    /\ Len(elems) < MaxElems
    /\ \E a \in TreeFactoryArgs : Factory(a[1], a[2], a[3])

SetContent == \E i \in 1..Len(elems) : \E c \in CallContents(i) : Call(i, c)

RenderElement == \E i \in 1..Len(elems) : Render(i)

(* the caller makes a one-shot iterator, it = iter([...]) *)
NewIterator ==
    /\ Len(iters) < MaxIters
    /\ \E src \in IterSources : iters' = Append(iters, src)
    /\ UNCHANGED <<elems, last>>

Next == NewElement \/ NewFromCatalog \/ SetContent \/ RenderElement \/ NewIterator

Spec == Init /\ [][Next]_vars

----------------------------------------------------------------------------
(* SpecAttrs: one element built with any attributes, then re-set and rendered *)

ScalarVals == {PBool(TRUE), PBool(FALSE), PNone, PInt(0), PFloat(0), PInt(12),
               PStr(s_a)}

AttrKeys == {s_class_, s_class__, s_style, s_type}

AttrItems == {<<key, v>> : key \in AttrKeys, v \in ScalarVals}
             \cup {<<s_style, StyleDict>>, <<s_style_, StyleDict>>,
                   <<s_class_, StyleDict>>}

RECURSIVE AttrMaps(_)
AttrMaps(n) ==
    IF n = 0 THEN {<<>>}
    ELSE LET shorter == AttrMaps(n - 1) IN
         shorter \cup {Append(m, it) : m \in {x \in shorter : Len(x) = n - 1},
                                       it \in AttrItems}

DistinctKeys(m) == \A i, j \in 1..Len(m) : m[i][1] = m[j][1] => i = j

Kwargs == {m \in AttrMaps(MaxAttrs) : DistinctKeys(m)}

FactoryKwargs == {<<>>} \cup {<<it>> : it \in AttrItems}
                 \cup {<<<<s_charset, v>>>> : v \in ScalarVals}

AttrKinds == {element(s_div, FALSE, FALSE), element(s_div, TRUE, FALSE),
              element(s_script, FALSE, TRUE), element(s_input, TRUE, FALSE)}

AttrContents == {<<>>, <<PStr(s_a)>>}

AttrNewElement ==
    /\ elems = <<>>
    /\ \E f \in AttrKinds, c \in AttrContents, kw \in Kwargs :
          Construct(f.tag, c, f.void, f.pw, kw)

AttrNewFromCatalog ==
    /\ elems = <<>>
    /\ \E f \in Catalog, c \in AttrContents, kw \in FactoryKwargs :
          Factory(f, c, kw)

AttrSetContent == \E i \in 1..Len(elems), c \in AttrContents : Call(i, c)

AttrRender == \E i \in 1..Len(elems) : Render(i)

NextAttrs == AttrNewElement \/ AttrNewFromCatalog \/ AttrSetContent \/ AttrRender

SpecAttrs == Init /\ [][NextAttrs]_vars

----------------------------------------------------------------------------
(* What the checked properties refer to *)

Rendered == last.op = "render"

RenderedOk == last.op = "render" /\ last.st = "ok"

Subject == elems[last.target]

StartsWith(s, p) == Len(s) >= Len(p) /\ SubSeq(s, 1, Len(p)) = p

DefaultsOf(tag) == IF HasKey(DEFAULT_ATTRS, tag) THEN Lookup(DEFAULT_ATTRS, tag) ELSE <<>>

(* depth-first, left-to-right concatenation of the leaves of a content value;
   a one-shot iterator gives the items it still holds, once *)
RECURSIVE Flatten(_, _, _)
RECURSIVE FlattenAll(_, _, _)

Flatten(x, H, its) ==
    IF x.k \in {"list", "tuple"} THEN FlattenAll(x.v, H, its)
    ELSE IF x.k = "iter" THEN FlattenAll(its[x.v], H, [its EXCEPT ![x.v] = <<>>])
    ELSE IF x.k = "elem" THEN LET r == ElemStr(x.v, H, its, 1) IN
                              [s |-> r.s, its |-> r.its]
    ELSE [s |-> PyStr(x), its |-> its]

FlattenAll(items, H, its) ==
    IF items = <<>> THEN [s |-> <<>>, its |-> its]
    ELSE LET a == Flatten(Head(items), H, its)
             b == FlattenAll(Tail(items), H, a.its) IN
         [s |-> a.s \o b.s, its |-> b.its]

(* a value that is neither a primitive nor an iterable, at any depth of the
   nested sequences of a content value *)
RECURSIVE ContainsBad(_)
ContainsBad(x) ==
    IF x.k \in {"list", "tuple"} THEN \E n \in 1..Len(x.v) : ContainsBad(x.v[n])
    ELSE x.k \in {"none", "object"}

----------------------------------------------------------------------------
(* C1: a void element never holds content: constructing a void element with
   content, or replacing the content of a void element by a non-empty one,
   fails with ValueError and leaves every void element empty. *)
C1_VoidHasNoContent ==
    /\ \A i \in 1..Len(elems) : elems[i].is_void => elems[i].content = <<>>
    /\ (last.op \in {"construct", "call"} /\ last.void /\ last.nargs > 0)
          => last.st = "ValueError"
    /\ (last.op = "construct" /\ last.st = "ValueError") => last.target = 0

C1_Witness ==
    /\ last.op = "call" /\ last.st = "ValueError" /\ last.nargs > 0
    /\ elems[last.target].is_void
    /\ elems[last.target].content = <<>>

(* C2 as stated: rendering a void element yields exactly <tag/>, whatever
   attributes it holds. *)
C2_Original ==
    (RenderedOk /\ Subject.is_void)
        => last.out = <<"<">> \o Subject.tag \o <<"/", ">">>

(* C2 amended: rendering a void element always succeeds and yields <tag, the
   attribute fragments of the element, then />, with no content and no
   closing tag; it is <tag/> when the element holds no attribute. *)
C2_VoidRender ==
    (Rendered /\ Subject.is_void)
        => /\ last.st = "ok"
           /\ last.out = <<"<">> \o Subject.tag \o AttrsStr(Subject.attrs) \o <<"/", ">">>
           /\ Subject.attrs = <<>> => last.out = <<"<">> \o Subject.tag \o <<"/", ">">>

C2_Witness ==
    /\ RenderedOk /\ Subject.is_void
    /\ Subject.tag = s_input
    /\ Subject.kwargs = << <<s_class_, PStr(s_a)>> >>

(* the encoding table of an attribute: nothing for false and null, the bare
   name for true, the joined pairs for a style mapping, name="value" with the
   plain string conversion otherwise *)
TableFragment(key, value) ==
    LET name == RStrip(key, "_") IN
    IF value.k = "none" \/ (value.k = "bool" /\ ~value.v) THEN <<>>
    ELSE IF value.k = "bool" THEN <<" ">> \o name
    ELSE IF name = s_style /\ value.k = "dict"
         THEN <<" ">> \o s_style \o <<"=", "\"">> \o StyleStr(value.v) \o <<"\"">>
    ELSE <<" ">> \o name \o <<"=", "\"">> \o PyStr(value) \o <<"\"">>

RECURSIVE TableAttrs(_)
TableAttrs(attrs) ==
    IF attrs = <<>> THEN <<>>
    ELSE TableFragment(attrs[1][1], attrs[1][2]) \o TableAttrs(Tail(attrs))

(* C3 as stated: the attribute segment of a rendering is the concatenation, in
   insertion order, of the fragments of the encoding table; every string and
   every number, 0 and 0.0 included, is emitted as name="value". *)
C3_Claim ==
    RenderedOk =>
        LET p == <<"<">> \o Subject.tag \o TableAttrs(Subject.attrs) IN
        /\ StartsWith(last.out, p)
        /\ Len(last.out) > Len(p)
        /\ last.out[Len(p) + 1] \in {">", "/"}

StripOne(key) ==
    IF key # <<>> /\ key[Len(key)] = "_" THEN SubSeq(key, 1, Len(key) - 1) ELSE key

(* C4 as stated: the emitted name of an attribute is its key with exactly one
   trailing underscore removed (checked on elements holding one emitted
   attribute). *)
C4_Claim ==
    (RenderedOk /\ Len(Subject.attrs) = 1 /\ AttrKept(Subject.attrs[1][2]))
        => LET p == <<"<">> \o Subject.tag \o <<" ">> \o StripOne(Subject.attrs[1][1]) IN
           /\ StartsWith(last.out, p)
           /\ Len(last.out) > Len(p)
           /\ last.out[Len(p) + 1] \in {"=", ">", "/"}

(* C5 as stated: two consecutive renderings of an element, with no
   construction or content replacement in between, give the same result. *)
C5_Claim ==
    [][(/\ last.op = "render" /\ last'.op = "render"
        /\ last'.target = last.target /\ elems' = elems)
         => (last'.st = last.st /\ last'.out = last.out)]_vars

PlainEmpty(tag) == <<"<">> \o tag \o <<">", "<", "/">> \o tag \o <<">">>

RECURSIVE DefaultFragments(_)
DefaultFragments(ds) ==
    IF ds = <<>> THEN <<>>
    ELSE <<" ">> \o ds[1][1] \o <<"=", "\"">> \o ds[1][2].v \o <<"\"">>
         \o DefaultFragments(Tail(ds))

BuiltBare == /\ RenderedOk /\ ~Subject.is_void
             /\ Subject.kwargs = <<>> /\ Subject.content = <<>>

(* C6 as stated: every non-void tag constructed with no content and no
   attributes renders as exactly <tag></tag>. *)
C6_Original == BuiltBare => last.out = PlainEmpty(Subject.tag)

(* C6 amended: a non-void tag constructed with no content and no attributes
   renders as <tag></tag> when the tag has no default attributes, and as
   <tag type="..."></tag> with its default attribute for script and style. *)
C6_EmptyRender ==
    BuiltBare =>
        /\ last.out = <<"<">> \o Subject.tag \o DefaultFragments(DefaultsOf(Subject.tag))
                      \o <<">", "<", "/">> \o Subject.tag \o <<">">>
        /\ ~HasKey(DEFAULT_ATTRS, Subject.tag) => last.out = PlainEmpty(Subject.tag)

C6_Witness == BuiltBare /\ Subject.tag = s_script /\ Subject.preserve_whitespace

HelloHeap ==
    LET E(tag, content) == [tag |-> tag, is_void |-> FALSE, preserve_whitespace |-> FALSE,
                            attrs |-> <<>>, content |-> content, kwargs |-> <<>>] IN
    << E(<<"p">>, <<PStr(<<"H", "e", "l", "l", "o", ",", " ", "w", "o", "r", "l", "d", "!">>)>>),
       E(<<"b", "o", "d", "y">>, <<PElem(1)>>),
       E(<<"h", "t", "m", "l">>, <<PElem(2)>>) >>

HelloOut ==
    <<"<", "h", "t", "m", "l", ">", "<", "b", "o", "d", "y", ">", "<", "p", ">",
      "H", "e", "l", "l", "o", ",", " ", "w", "o", "r", "l", "d", "!",
      "<", "/", "p", ">", "<", "/", "b", "o", "d", "y", ">", "<", "/", "h", "t", "m", "l", ">">>

(* C7: a rendering of a non-void element that does not preserve whitespace and
   has content is <tag attrs>, the depth-first left-to-right concatenation of
   its content leaves (a child element giving its own rendering), </tag>;
   html > body > p > "Hello, world!" renders as the test expects. *)
C7_Flattening ==
    /\ ElemStr(3, HelloHeap, <<>>, 1).s = HelloOut
    /\ [][\A i \in 1..Len(elems) :
            (/\ last'.op = "render" /\ last'.target = i /\ last'.st = "ok"
             /\ ~elems[i].is_void /\ ~elems[i].preserve_whitespace
             /\ elems[i].content # <<>>
             /\ Render(i))
              => last'.out = <<"<">> \o elems[i].tag \o AttrsStr(elems[i].attrs) \o <<">">>
                             \o Flatten(PTuple(elems[i].content), elems, iters).s
                             \o <<"<", "/">> \o elems[i].tag \o <<">">>]_vars

C7_Witness ==
    /\ RenderedOk
    /\ ~Subject.is_void /\ ~Subject.preserve_whitespace
    /\ Len(Subject.content) = 1 /\ Subject.content[1].k = "elem"
    /\ elems[Subject.content[1].v].content = <<NestedList>>
    /\ last.out = <<"<", "d", "i", "v", ">", "<", "d", "i", "v", ">", "a", "b", "c",
                    "<", "/", "d", "i", "v", ">", "<", "/", "d", "i", "v", ">">>

(* C8: after construction the attribute map is the caller's keyword arguments,
   unchanged and in order, followed by the defaults of the tag whose keys the
   caller did not supply; nothing else is added, and no later operation
   changes it. *)
C8_DefaultsMerged ==
    \A i \in 1..Len(elems) :
        LET e == elems[i]
            ds == DefaultsOf(e.tag) IN
        /\ Len(e.attrs) >= Len(e.kwargs)
        /\ \A n \in 1..Len(e.kwargs) : e.attrs[n] = e.kwargs[n]
        /\ \A n \in 1..Len(ds) :
              /\ HasKey(e.attrs, ds[n][1])
              /\ Lookup(e.attrs, ds[n][1]) =
                    IF HasKey(e.kwargs, ds[n][1]) THEN Lookup(e.kwargs, ds[n][1])
                    ELSE ds[n][2]
        /\ \A n \in (Len(e.kwargs) + 1)..Len(e.attrs) :
              \E m \in 1..Len(ds) : e.attrs[n] = ds[m] /\ ~HasKey(e.kwargs, ds[m][1])
        /\ \A n, m \in 1..Len(e.attrs) : e.attrs[n][1] = e.attrs[m][1] => n = m

C8_Witness ==
    /\ last.op = "call" /\ last.st = "ok"
    /\ Subject.tag = s_script
    /\ HasKey(Subject.kwargs, s_type)
    /\ Lookup(Subject.attrs, s_type) = PBool(FALSE)

(* C9 as stated: construction and content replacement fail only on the void
   check, and rendering a non-void element whose content holds, at any depth,
   a value that is neither primitive nor iterable fails with TypeError. *)
C9_Claim ==
    /\ (last.op \in {"construct", "call"} /\ last.st # "ok")
          => (last.st = "ValueError" /\ last.void /\ last.nargs > 0)
    /\ (Rendered /\ ~Subject.is_void /\ ContainsBad(PTuple(Subject.content)))
          => (last.st = "TypeError" /\ last.out = <<>>)

(* C10 as stated: every rendering terminates with a string or with the
   TypeError of an invalid content value. *)
C10_Claim == Rendered => last.st \in {"ok", "TypeError"}

====
